---------------------------- MODULE Spec2Model ----------------------------
(***************************************************************************)
(* A model of mx_proftool.py: the JVMTI assembly trace decoder             *)
(* (GeneratedAssembly), the perf sample decoder and merger (PerfOutput),   *)
(* the attribution of samples to code regions (attribute_events / find),   *)
(* the ranking of the regions (top_methods) and the disassembler wrapper   *)
(* (DisassemblyDecoder: disassemble_with_skip, get_annotations,            *)
(* filter_by_hot_region).                                                  *)
(*                                                                         *)
(* Python's None is modelled by the number -1, which is never used as a    *)
(* data value (timestamps, addresses, sizes and tags of the model are      *)
(* >= 0).  Python object references (PerfEvent objects shared between      *)
(* lists) are modelled by identifiers into the variable heap; references   *)
(* to CompiledCodeInfo objects are indices into code_info.                 *)
(***************************************************************************)
EXTENDS Integers, Sequences, FiniteSets, TLC

VARIABLES
    \* GeneratedAssembly
    code_info,          \* self.code_info: the regions, in load order
    low_address,        \* self.low_address
    high_address,       \* self.high_address
    code_by_address,    \* self.code_by_address: code_addr -> index in code_info
    map,                \* self.map: bucket address -> sequence of indices
    status,             \* where GeneratedAssembly.read is: reading, done or the error raised
    rec,                \* the locals of read(): the last tag, timestamp, code_addr read
    nread,              \* number of tags read from the trace so far
    \* PerfOutput
    perf_file,          \* the lines of the perf script output that was read
    heap,               \* the PerfEvent objects: identifier -> fields
    raw_events,         \* self.raw_events: sequence of identifiers
    events,             \* self.events: sequence of identifiers
    total_samples,      \* PerfOutput.total_samples
    total_period,       \* PerfOutput.total_period
    \* attribute_events
    counters,           \* attributed, unknown, missing of the last attribute_events
    phase,              \* the command's position: assembly, perf, attributed, ranked
    \* DisassemblyDecoder.filter_by_hot_region
    instructions,       \* the addresses of the instruction list
    sampled,            \* the pcs of the region's events, which hotpc is built from
    hotpc,              \* the hot address set (mutated by the walk)
    context_size,       \* the context_size argument
    regions,            \* the returned list of (begin, end) pairs
    hot_done,           \* whether filter_by_hot_region has returned
    \* DisassemblyDecoder.disassemble_with_skip
    code,               \* the byte buffer
    code_base,          \* the argument code_addr: the address of the first byte
    decoded_bytes,      \* the local decoded_bytes
    decoded,            \* the local instructions: the list being returned
    new_instructions,   \* the local new_instructions: what the decoder returned last
    dis_pc,             \* where disassemble_with_skip is: start, loop, called, returned
    \* DisassemblyDecoder.get_annotations
    annotators,         \* what each annotator of self.annotators returns
    annotations,        \* the outcome of get_annotations
    \* GeneratedAssembly.top_methods
    top                 \* the outcome of top_methods

asm_vars == <<code_info, low_address, high_address, code_by_address, map, status, rec, nread>>
perf_vars == <<perf_file, heap, raw_events, events, total_samples, total_period>>
hot_vars == <<instructions, sampled, hotpc, context_size, regions, hot_done>>
dis_vars == <<code, code_base, decoded_bytes, decoded, new_instructions, dis_pc, annotators, annotations>>
vars == <<asm_vars, perf_vars, counters, phase, hot_vars, dis_vars, top>>

-----------------------------------------------------------------------------
(* Program constants *)

None == -1

bucket_size == 8192

DynamicCodeTag == 1146703427
CompiledMethodLoadTag == 1129139284
MethodsTag == 1297369172
DebugInfoTag == 1145389641
CompiledMethodUnloadTag == 1129141588

-----------------------------------------------------------------------------
(* Bounds and input domains *)

\* number of records read from one trace
MaxRecords == 3

\* the base addresses, sizes and timestamps the trace records may carry; a
\* region holds at least one byte of code, and the region at 8191 of size 2
\* lies across a bucket boundary
Bases == {0, 8191}
Sizes == {1, 2}
TraceTimes == {1, 2}
StubNames == {"StubX"}
MethodNames == {"foo.Bar.baz"}

\* the timestamps contains() and find() are queried with
QueryTimes == 0 .. 3

\* tag values that name no top-level record, 0 included
OtherTags == {0, 1, MethodsTag, DebugInfoTag}

-----------------------------------------------------------------------------
(* Python helpers *)

\* truth value of an optional number: None and 0 are falsy
Truthy(v) == v # None /\ v # 0

Min(a, b) == IF a <= b THEN a ELSE b
Max(a, b) == IF a >= b THEN a ELSE b

-----------------------------------------------------------------------------
(* CompiledCodeInfo *)

CompiledCodeInfo(name, timestamp, code_addr, code_size, generated) ==
    [name |-> name, timestamp |-> timestamp, code_addr |-> code_addr,
     code_size |-> code_size, generated |-> generated, unload_time |-> None,
     events |-> <<>>, total_period |-> 0, total_samples |-> 0]

code_begin(c) == c.code_addr

code_end(c) == c.code_addr + c.code_size

\* contains_timestamp with the unload instant still inside the window
contains_timestamp_closed(c, timestamp) ==
    timestamp >= c.timestamp /\ (c.unload_time = None \/ c.unload_time >= timestamp)

contains_timestamp(c, timestamp) ==
    timestamp >= c.timestamp /\ (c.unload_time = None \/ c.unload_time > timestamp)

\* contains with the end address inside the range
contains_closed_range(c, pc, timestamp) ==
    IF c.code_addr <= pc /\ pc <= c.code_addr + c.code_size
    THEN c.generated \/ timestamp = None \/ contains_timestamp(c, timestamp)
    ELSE FALSE

\* contains without the "self.generated or": a stub is live as a method is
contains_stub_timed(c, pc, timestamp) ==
    IF c.code_addr <= pc /\ pc < c.code_addr + c.code_size
    THEN timestamp = None \/ contains_timestamp(c, timestamp)
    ELSE FALSE

\* contains(pc, timestamp=None); a missing timestamp is passed as None
contains(c, pc, timestamp) ==
    IF c.code_addr <= pc /\ pc < code_end(c)
    THEN c.generated \/ timestamp = None \/ contains_timestamp(c, timestamp)
    ELSE FALSE

set_unload_time(c, timestamp) == [c EXCEPT !.unload_time = timestamp]

-----------------------------------------------------------------------------
(* GeneratedAssembly: decoding the record stream *)

Reading == status = "reading" /\ phase = "assembly"

Fatal == {"KeyError", "AssertionError", "abort", "IndexError"}

\* an add that keeps the first region registered at an address
add_keep_first(c) ==
    /\ code_info' = Append(code_info, c)
    /\ IF ~Truthy(low_address)
       THEN /\ low_address' = code_begin(c)
            /\ high_address' = code_end(c)
       ELSE /\ low_address' = Min(low_address, code_begin(c))
            /\ high_address' = Max(high_address, code_end(c))
    /\ code_by_address' =
         [a \in DOMAIN code_by_address \cup {c.code_addr} |->
            IF a \in DOMAIN code_by_address THEN code_by_address[a]
            ELSE Len(code_info) + 1]

\* GeneratedAssembly.add
add(c) ==
    /\ code_info' = Append(code_info, c)
    /\ IF ~Truthy(low_address)
       THEN /\ low_address' = code_begin(c)
            /\ high_address' = code_end(c)
       ELSE /\ low_address' = Min(low_address, code_begin(c))
            /\ high_address' = Max(high_address, code_end(c))
    /\ code_by_address' =
         [a \in DOMAIN code_by_address \cup {c.code_addr} |->
            IF a = c.code_addr THEN Len(code_info) + 1 ELSE code_by_address[a]]

\* read(): tag == DynamicCodeTag
ReadDynamicCode(timestamp, name, code_addr, code_size) ==
    /\ Reading
    /\ rec' = [tag |-> DynamicCodeTag, timestamp |-> timestamp, code_addr |-> code_addr]
    /\ add(CompiledCodeInfo(name, timestamp, code_addr, code_size, TRUE))
    /\ nread' = nread + 1
    /\ UNCHANGED <<map, status, perf_vars, counters, phase, hot_vars, dis_vars, top>>

\* read(): tag == CompiledMethodLoadTag, both nested sections well tagged and
\* at least one method
ReadCompiledMethodLoad(timestamp, name, code_addr, code_size) ==
    /\ Reading
    /\ rec' = [tag |-> CompiledMethodLoadTag, timestamp |-> timestamp, code_addr |-> code_addr]
    /\ add(CompiledCodeInfo(name, timestamp, code_addr, code_size, FALSE))
    /\ nread' = nread + 1
    /\ UNCHANGED <<map, status, perf_vars, counters, phase, hot_vars, dis_vars, top>>

\* read(): tag == CompiledMethodLoadTag, but the tag of the methods section or
\* of the debug info section is not the expected one (mx.abort), or the
\* record has no method (methods[0] raises IndexError); no region is created
\* and the locals are dead
ReadCompiledMethodLoadBad(section_tag, methods_count) ==
    /\ Reading
    /\ section_tag # MethodsTag \/ methods_count = 0
    /\ rec' = [tag |-> CompiledMethodLoadTag, timestamp |-> None, code_addr |-> None]
    /\ status' = IF section_tag # MethodsTag THEN "abort" ELSE "IndexError"
    /\ nread' = nread + 1
    /\ UNCHANGED <<code_info, low_address, high_address, code_by_address, map,
                   perf_vars, counters, phase, hot_vars, dis_vars, top>>

\* an unload that looks the address up with dict.get and skips a missing region
ReadCompiledMethodUnloadLenient(timestamp, code_addr) ==
    /\ status = "reading" /\ phase = "assembly"
    /\ rec' = [tag |-> CompiledMethodUnloadTag, timestamp |-> timestamp, code_addr |-> code_addr]
    /\ nread' = nread + 1
    /\ code_info' = IF code_addr \in DOMAIN code_by_address
                    THEN [code_info EXCEPT ![code_by_address[code_addr]] =
                             [@ EXCEPT !.unload_time = timestamp]]
                    ELSE code_info
    /\ UNCHANGED <<status, low_address, high_address, code_by_address, map,
                   perf_file, heap, raw_events, events, total_samples, total_period,
                   counters, phase, instructions, sampled, hotpc, context_size, regions,
                   hot_done, code, code_base, decoded_bytes, decoded, new_instructions, dis_pc,
                   annotators,
                   annotations, top>>

\* read(): tag == CompiledMethodUnloadTag.  self.code_by_address[code_addr]
\* raises KeyError for an address that is no key; a key always maps to a
\* CompiledCodeInfo object, which is truthy, so mx.abort is never reached.
ReadCompiledMethodUnload(timestamp, code_addr) ==
    /\ Reading
    /\ rec' = [tag |-> CompiledMethodUnloadTag, timestamp |-> timestamp, code_addr |-> code_addr]
    /\ nread' = nread + 1
    /\ IF code_addr \in DOMAIN code_by_address
       THEN /\ code_info' = [code_info EXCEPT ![code_by_address[code_addr]] =
                                set_unload_time(@, timestamp)]
            /\ UNCHANGED status
       ELSE /\ status' = "KeyError"
            /\ UNCHANGED code_info
    /\ UNCHANGED <<low_address, high_address, code_by_address, map,
                   perf_vars, counters, phase, hot_vars, dis_vars, top>>

\* read(): "if not tag: return", taken for the None of a zero-length read and
\* for a tag of value 0
ReadReturn(tag) ==
    /\ Reading
    /\ ~Truthy(tag)
    /\ rec' = [tag |-> tag, timestamp |-> None, code_addr |-> None]
    /\ status' = "done"
    /\ nread' = nread + 1
    /\ UNCHANGED <<code_info, low_address, high_address, code_by_address, map,
                   perf_vars, counters, phase, hot_vars, dis_vars, top>>

\* read(): the final else, raise AssertionError("Unexpected tag")
ReadUnexpectedTag(tag) ==
    /\ Reading
    /\ Truthy(tag)
    /\ tag \notin {DynamicCodeTag, CompiledMethodUnloadTag, CompiledMethodLoadTag}
    /\ rec' = [tag |-> tag, timestamp |-> None, code_addr |-> None]
    /\ status' = "AssertionError"
    /\ nread' = nread + 1
    /\ UNCHANGED <<code_info, low_address, high_address, code_by_address, map,
                   perf_vars, counters, phase, hot_vars, dis_vars, top>>

\* read_jint on 1 to 3 remaining bytes: assert len(b) == 4 fails
ReadShortTag(nbytes) ==
    /\ Reading
    /\ nbytes \in 1 .. 3
    /\ rec' = [tag |-> None, timestamp |-> None, code_addr |-> None]
    /\ status' = "AssertionError"
    /\ nread' = nread + 1
    /\ UNCHANGED <<code_info, low_address, high_address, code_by_address, map,
                   perf_vars, counters, phase, hot_vars, dis_vars, top>>

-----------------------------------------------------------------------------
(* GeneratedAssembly: the search map and find *)

\* a round_up that rounds down
round_up_short(value) == bucket_size * (value \div bucket_size)

round_up(value) == bucket_size * ((value + bucket_size - 1) \div bucket_size)

round_down(value) == bucket_size * (value \div bucket_size)

\* the bucket addresses range(round_down(begin), round_up(end), bucket_size)
BucketRange(c) ==
    LET first == round_down(code_begin(c))
        stop == round_up(code_end(c))
    IN {first + k * bucket_size : k \in 0 .. (((stop - first) \div bucket_size) - 1)}

\* build_search_map: every region, in the order of code_info, is appended to
\* the list of each bucket of its range
build_search_map(infos) ==
    LET buckets == UNION {BucketRange(infos[i]) : i \in 1 .. Len(infos)}
        order == [i \in 1 .. Len(infos) |-> i]
        InBucket(b) == LET Covers(i) == b \in BucketRange(infos[i])
                       IN SelectSeq(order, Covers)
    IN [b \in buckets |-> InBucket(b)]

\* search: the full linear scan
search(infos, pc) ==
    LET order == [i \in 1 .. Len(infos) |-> i]
        Hit(i) == contains(infos[i], pc, None)
    IN SelectSeq(order, Hit)

\* a loop that keeps the last of the matching elements
LastOf(matching) == IF matching = <<>> THEN None ELSE matching[Len(matching)]

\* the element a "for x in entries: if ...: return x" loop returns: the first
\* of the matching elements, or None
FirstOf(matching) == IF matching = <<>> THEN None ELSE matching[1]

\* a find that consults the timestamp for a single candidate too
find_always_timed(infos, m, pc, timestamp) ==
    LET index == round_down(pc)
        bucket == IF index \in DOMAIN m THEN m[index] ELSE <<>>
        Hit(i) == contains(infos[i], pc, None)
        entries == SelectSeq(bucket, Hit)
        Exact(i) == contains(infos[i], pc, timestamp)
        Later(i) == infos[i].unload_time = None \/ infos[i].unload_time > timestamp
        exact == FirstOf(SelectSeq(entries, Exact))
    IN IF entries = <<>>
       THEN [region |-> None, error |-> search(infos, pc) # <<>>]
       ELSE IF exact # None
       THEN [region |-> exact, error |-> FALSE]
       ELSE [region |-> FirstOf(SelectSeq(entries, Later)), error |-> FALSE]

\* find, on a built map m: the index of the region returned (None for no
\* region) and whether the AssertionError of the index/scan mismatch is raised
find(infos, m, pc, timestamp) ==
    LET index == round_down(pc)
        bucket == IF index \in DOMAIN m THEN m[index] ELSE <<>>
        Hit(i) == contains(infos[i], pc, None)
        entries == SelectSeq(bucket, Hit)
        Exact(i) == contains(infos[i], pc, timestamp)
        Later(i) == infos[i].unload_time = None \/ infos[i].unload_time > timestamp
        exact == FirstOf(SelectSeq(entries, Exact))
    IN IF entries = <<>>
       THEN [region |-> None, error |-> search(infos, pc) # <<>>]
       ELSE IF Len(entries) = 1
       THEN [region |-> entries[1], error |-> FALSE]
       ELSE IF exact # None
       THEN [region |-> exact, error |-> FALSE]
       ELSE [region |-> FirstOf(SelectSeq(entries, Later)), error |-> FALSE]

-----------------------------------------------------------------------------
(* PerfOutput *)

\* PerfEvent.__init__ on the fields of one parsed line
PerfEvent(line) ==
    [timestamp |-> line.timestamp, pc |-> line.pc, period |-> line.period,
     symbol |-> line.symbol, dso |-> line.dso, samples |-> 1]

RECURSIVE SumPeriod(_, _)
SumPeriod(lines, k) ==
    IF k = 0 THEN 0 ELSE SumPeriod(lines, k - 1) + lines[k].period

\* events_by_address[event.pc] = event: the raw object itself is stored
alias_event(h, id) == [heap |-> h, ref |-> id]

\* copy.copy(event): a new object with the fields of the event
copy_event(h, id) == [heap |-> Append(h, h[id]), ref |-> Len(h) + 1]

\* a merge that keeps the period of the first event of an address
keep_period(h, e, event) == h

\* e.period = e.period + event.period
add_period(h, e, event) == [h EXCEPT ![e].period = h[e].period + h[event].period]

\* the loop of merge_perf_events over the raw list from position k on;
\* merged is events_by_address.values(), in insertion order
RECURSIVE merge_loop(_, _, _, _)
merge_loop(h, raw, k, merged) ==
    IF k > Len(raw) THEN [heap |-> h, events |-> merged]
    ELSE LET event == raw[k]
             hits == {j \in 1 .. Len(merged) : h[merged[j]].pc = h[event].pc}
         IN IF hits # {}
            THEN LET e == merged[CHOOSE j \in hits : TRUE]
                 IN merge_loop(add_period(h, e, event), raw, k + 1, merged)
            ELSE LET c == copy_event(h, event)
                 IN merge_loop(c.heap, raw, k + 1, Append(merged, c.ref))

\* PerfOutput.__init__ on a well formed file: read_perf_output, then
\* merge_perf_events
PerfOutputInit(lines) ==
    /\ phase = "assembly" /\ status = "done"
    /\ LET objects == [k \in 1 .. Len(lines) |-> PerfEvent(lines[k])]
           read == [k \in 1 .. Len(lines) |-> k]
           m == merge_loop(objects, read, 1, <<>>)
       IN /\ heap' = m.heap
          /\ raw_events' = read
          /\ events' = m.events
    /\ perf_file' = lines
    /\ total_period' = SumPeriod(lines, Len(lines))
    /\ total_samples' = Len(lines)
    /\ phase' = "perf"
    /\ UNCHANGED <<asm_vars, counters, hot_vars, dis_vars, top>>

\* PerfOutput.__init__ on a file with a line the pattern does not match:
\* read_perf_output raises AssertionError at that line
PerfOutputBadLine(lines) ==
    /\ phase = "assembly" /\ status = "done"
    /\ perf_file' = lines
    /\ heap' = [k \in 1 .. Len(lines) |-> PerfEvent(lines[k])]
    /\ events' = [k \in 1 .. Len(lines) |-> k]
    /\ total_period' = SumPeriod(lines, Len(lines))
    /\ phase' = "AssertionError"
    /\ UNCHANGED <<asm_vars, raw_events, total_samples, counters, hot_vars, dis_vars, top>>

-----------------------------------------------------------------------------
(* GeneratedAssembly.attribute_events *)

\* an add that counts the event instead of adding its period
add_to_region_unweighted(c, id, event) ==
    [c EXCEPT !.events = Append(c.events, id),
              !.total_period = c.total_period + 1,
              !.total_samples = c.total_samples + event.samples]

\* an add that leaves total_samples as it is
add_to_region_uncounted(c, id, event) ==
    [c EXCEPT !.events = Append(c.events, id),
              !.total_period = c.total_period + event.period]

\* CompiledCodeInfo.add
add_to_region(c, id, event) ==
    [c EXCEPT !.events = Append(c.events, id),
              !.total_period = c.total_period + event.period,
              !.total_samples = c.total_samples + event.samples]

\* add_event on the state s of the loop: the regions, the PerfEvent objects,
\* the counters
add_event(s, m, id) ==
    LET event == s.heap[id]
        f == find(s.code_info, m, event.pc, event.timestamp)
    IN IF f.error THEN [s EXCEPT !.error = TRUE]
       ELSE IF f.region # None
       THEN [s EXCEPT !.code_info[f.region] = add_to_region(@, id, event),
                      !.heap[id].dso = IF s.code_info[f.region].generated
                                       THEN "[Generated]" ELSE "[JIT]",
                      !.heap[id].symbol = s.code_info[f.region].name,
                      !.attributed = s.attributed + 1]
       ELSE [s EXCEPT !.missing = s.missing + 1]

\* the loop of attribute_events over perf_data.events from position k on
RECURSIVE attribute_loop(_, _, _, _)
attribute_loop(s, m, evs, k) ==
    IF k > Len(evs) \/ s.error THEN s
    ELSE LET event == s.heap[evs[k]]
         IN IF low_address <= event.pc /\ event.pc < high_address
            THEN attribute_loop(add_event(s, m, evs[k]), m, evs, k + 1)
            ELSE IF event.symbol = "[Unknown]"
            THEN attribute_loop([s EXCEPT !.unknown = s.unknown + 1], m, evs, k + 1)
            ELSE attribute_loop(s, m, evs, k + 1)

\* attribute_events(perf_data); the search map is built by the first find
AttributeEvents ==
    /\ phase = "perf"
    /\ IF low_address = None \/ high_address = None
       THEN /\ phase' = "AssertionError"
            /\ UNCHANGED <<code_info, heap, map, counters>>
       ELSE LET looked == \E k \in 1 .. Len(events) :
                             /\ low_address <= heap[events[k]].pc
                             /\ heap[events[k]].pc < high_address
                m == IF map = <<>> THEN build_search_map(code_info) ELSE map
                s0 == [code_info |-> code_info, heap |-> heap, error |-> FALSE,
                       attributed |-> 0, unknown |-> 0, missing |-> 0]
                s == attribute_loop(s0, m, events, 1)
            IN /\ code_info' = s.code_info
               /\ heap' = s.heap
               /\ map' = IF looked THEN m ELSE map
               /\ counters' = [attributed |-> s.attributed, unknown |-> s.unknown,
                               missing |-> s.missing]
               /\ phase' = IF s.error THEN "AssertionError" ELSE "attributed"
    /\ UNCHANGED <<low_address, high_address, code_by_address, status, rec, nread,
                   perf_file, raw_events, events, total_samples, total_period, hot_vars, dis_vars, top>>

-----------------------------------------------------------------------------
(* The decoder on any record stream *)

InitAssembly ==
    /\ code_info = <<>>
    /\ low_address = None
    /\ high_address = None
    /\ code_by_address = <<>>
    /\ map = <<>>
    /\ status = "reading"
    /\ rec = [tag |-> None, timestamp |-> None, code_addr |-> None]
    /\ nread = 0

InitPerf ==
    /\ perf_file = <<>>
    /\ heap = <<>>
    /\ raw_events = <<>>
    /\ events = <<>>
    /\ total_samples = 0
    /\ total_period = 0
    /\ counters = [attributed |-> 0, unknown |-> 0, missing |-> 0]

InitHot ==
    /\ instructions = <<>>
    /\ sampled = {}
    /\ hotpc = {}
    /\ context_size = 0
    /\ regions = <<>>
    /\ hot_done = FALSE

InitDis ==
    /\ code = <<>>
    /\ code_base = 0
    /\ decoded_bytes = 0
    /\ decoded = <<>>
    /\ new_instructions = <<>>
    /\ dis_pc = "idle"
    /\ annotators = <<>>
    /\ annotations = [status |-> "idle", pre |-> <<>>, post |-> <<>>, messages |-> <<>>]

InitTop == top = [status |-> "idle", include |-> "", entries |-> <<>>]

Init ==
    /\ InitAssembly
    /\ InitPerf
    /\ InitHot
    /\ InitDis
    /\ InitTop
    /\ phase = "assembly"

\* the trace holds at most MaxRecords tags
MoreTags == nread < MaxRecords

Next ==
    \/ \E t \in TraceTimes, n \in StubNames, a \in Bases, s \in Sizes :
          MoreTags /\ ReadDynamicCode(t, n, a, s)
    \/ \E t \in TraceTimes, n \in MethodNames, a \in Bases, s \in Sizes :
          MoreTags /\ ReadCompiledMethodLoad(t, n, a, s)
    \/ \E g \in {MethodsTag, DebugInfoTag}, m \in {0, 1} :
          MoreTags /\ ReadCompiledMethodLoadBad(g, m)
    \/ \E t \in TraceTimes, a \in Bases : MoreTags /\ ReadCompiledMethodUnload(t, a)
    \/ \E g \in {None, 0} : MoreTags /\ ReadReturn(g)
    \/ \E g \in OtherTags : MoreTags /\ ReadUnexpectedTag(g)
    \/ \E n \in 1 .. 3 : MoreTags /\ ReadShortTag(n)

Spec == Init /\ [][Next]_vars

-----------------------------------------------------------------------------
(* An address reused over time: loads and unloads at one base address,     *)
(* followed by the perf samples and their attribution                      *)

\* number of records of a trace that reuses the address
MaxReuseRecords == 4

\* number of lines of the perf output
MaxEvents == 2

ReuseBases == {12288}
ReuseTimes == 1 .. 3
SampleTimes == {1, 2}
Periods == {1, 2}
Symbols == {"[unknown]"}
Modules == {"perf-1.map"}

\* the lines of the perf output: samples at the reused addresses
SampleLines ==
    [timestamp : SampleTimes, pc : {a + d : a \in ReuseBases, d \in {0, 1}},
     period : Periods, symbol : Symbols, dso : Modules]

RECURSIVE SeqsUpTo(_, _)
SeqsUpTo(S, n) ==
    IF n = 0 THEN {<<>>}
    ELSE LET shorter == SeqsUpTo(S, n - 1)
         IN shorter \cup {Append(q, x) : q \in {r \in shorter : Len(r) = n - 1}, x \in S}

\* the perf outputs read, and the well formed lines before a malformed one
PerfFiles == SeqsUpTo(SampleLines, MaxEvents)
PerfPrefixes == SeqsUpTo(SampleLines, 1)

ReuseReading == nread < MaxReuseRecords

Last == code_info[Len(code_info)]

\* a load follows the unload of the region before it, not earlier than it
ReuseLoad(t) ==
    /\ ReuseReading
    /\ code_info # <<>> => (Last.unload_time # None /\ t >= Last.unload_time)

\* an unload follows the load of the last region, later than it
ReuseUnload(t) ==
    /\ ReuseReading
    /\ code_info # <<>> /\ Last.unload_time = None /\ t > Last.timestamp

NextReuse ==
    \/ \E t \in ReuseTimes, n \in StubNames, a \in ReuseBases, s \in Sizes :
          ReuseLoad(t) /\ ReadDynamicCode(t, n, a, s)
    \/ \E t \in ReuseTimes, n \in MethodNames, a \in ReuseBases, s \in Sizes :
          ReuseLoad(t) /\ ReadCompiledMethodLoad(t, n, a, s)
    \/ \E t \in ReuseTimes, a \in ReuseBases :
          ReuseUnload(t) /\ ReadCompiledMethodUnload(t, a)
    \/ ReadReturn(None)
    \/ \E lines \in PerfFiles : PerfOutputInit(lines)
    \/ \E lines \in PerfPrefixes : PerfOutputBadLine(lines)
    \/ AttributeEvents

SpecReuse == Init /\ [][NextReuse]_vars

-----------------------------------------------------------------------------
(* Properties of the decoder *)

Regions == 1 .. Len(code_info)

TopLevelTags == {DynamicCodeTag, CompiledMethodLoadTag, CompiledMethodUnloadTag}

\* the region an unload record at code_addr refers to, if any
Loaded(code_addr) == \E i \in Regions : code_info[i].code_addr = code_addr

\* C2 as claimed: a method region that an unload record has unloaded at tu
\* contains its base address at every timestamp before tu and at none from
\* tu on.
C2_original ==
    \A i \in Regions :
       LET c == code_info[i] IN
       (~c.generated /\ c.unload_time # None) =>
          \A t \in QueryTimes : contains(c, c.code_addr, t) <=> (t < c.unload_time)

\* C2 amended: after an unload record at time tu has been decoded for a
\* method region loaded at time tl, the region's unload time is tu and
\* contains(base, t) is true exactly for tl <= t < tu: false from tu on, and
\* false before the load timestamp as well.
C2_amended ==
    /\ \A i \in Regions :
          LET c == code_info[i] IN
          (~c.generated /\ c.unload_time # None) =>
             \A t \in QueryTimes :
                contains(c, c.code_addr, t) <=> (c.timestamp <= t /\ t < c.unload_time)
    /\ (status = "reading" /\ rec.tag = CompiledMethodUnloadTag) =>
          /\ rec.code_addr \in DOMAIN code_by_address
          /\ code_info[code_by_address[rec.code_addr]].unload_time = rec.timestamp

C2_witness ==
    /\ status = "reading" /\ rec.tag = CompiledMethodUnloadTag
    /\ \E i \in Regions :
          LET c == code_info[i] IN
          /\ ~c.generated /\ c.unload_time = rec.timestamp
          /\ 0 < c.timestamp /\ c.timestamp < c.unload_time
          /\ contains(c, c.code_addr, c.timestamp)
          /\ ~contains(c, c.code_addr, c.unload_time)

\* C3: for every region, stub or not, unloaded or not, contains(pc) without a
\* timestamp is true exactly for base <= pc < base + size: false at base - 1,
\* true at base and at end - 1, false at end.
C3_half_open ==
    \A i \in Regions :
       LET c == code_info[i] IN
       /\ \A pc \in (c.code_addr - 2) .. (code_end(c) + 2) :
             contains(c, pc, None) <=> (c.code_addr <= pc /\ pc < c.code_addr + c.code_size)
       /\ ~contains(c, c.code_addr - 1, None)
       /\ contains(c, c.code_addr, None)
       /\ contains(c, code_end(c) - 1, None)
       /\ ~contains(c, code_end(c), None)

C3_witness ==
    /\ \E i \in Regions : code_info[i].generated /\ code_info[i].code_size > 1
    /\ \E i \in Regions :
          /\ ~code_info[i].generated /\ code_info[i].unload_time # None
          /\ code_info[i].code_addr = 0
          /\ contains(code_info[i], code_end(code_info[i]) - 1, None)

\* C4: once an unload record has been read whose address is the base address
\* of no region decoded before it, decoding has stopped with a fatal error,
\* whatever was decoded before.
C4_unload_unknown_aborts ==
    (rec.tag = CompiledMethodUnloadTag /\ ~Loaded(rec.code_addr)) => status \in Fatal

C4_witness ==
    /\ rec.tag = CompiledMethodUnloadTag /\ ~Loaded(rec.code_addr)
    /\ Len(code_info) = 2
    /\ status = "KeyError"

\* C5 as claimed: the unload time of a method region, once set by an unload
\* record, is never changed by a later record (a second unload record at the
\* address would abort instead).
C5_original ==
    [][\A i \in Regions :
          (~code_info[i].generated /\ code_info[i].unload_time # None) =>
             code_info'[i].unload_time = code_info[i].unload_time]_vars

\* C6: a stub region contains every pc of its range at every timestamp, before
\* its load timestamp and after an unload record at its base address too, and
\* an unload record at a stub's base address does not abort decoding.
C6_stub_always_live ==
    /\ \A i \in Regions :
          LET c == code_info[i] IN
          c.generated =>
             \A pc \in c.code_addr .. (code_end(c) - 1) :
                /\ contains(c, pc, None)
                /\ \A t \in QueryTimes : contains(c, pc, t)
    /\ (rec.tag = CompiledMethodUnloadTag
          /\ \E i \in Regions : code_info[i].generated /\ code_info[i].code_addr = rec.code_addr)
       => status = "reading"

C6_witness ==
    /\ status = "reading" /\ rec.tag = CompiledMethodUnloadTag
    /\ \E i \in Regions :
          LET c == code_info[i] IN
          /\ c.generated /\ c.code_addr = rec.code_addr
          /\ c.unload_time = rec.timestamp /\ c.timestamp > c.unload_time
          /\ contains(c, c.code_addr, 0) /\ contains(c, c.code_addr, c.unload_time)

\* C7 as claimed: every tag value other than the three record tags stops
\* decoding with a fatal error, and read() returns without error only on a
\* zero-length read (the None of read_jint).
C7_original ==
    /\ (rec.tag # None /\ rec.tag \notin TopLevelTags) => status \in Fatal
    /\ status = "done" => rec.tag = None

-----------------------------------------------------------------------------
(* Properties of the merge and of the attribution *)

Merged == phase \in {"perf", "attributed"}

\* sum of the weights of the lines 1..k of the perf output at address pc
RECURSIVE PeriodAt(_, _, _)
PeriodAt(lines, pc, k) ==
    IF k = 0 THEN 0
    ELSE PeriodAt(lines, pc, k - 1) + (IF lines[k].pc = pc THEN lines[k].period ELSE 0)

\* line k of the perf output gave weight to region c: the merged event of its
\* address, which carries the weight of every line at that address, is in
\* the event list of c
GaveWeight(k, c) ==
    \E j \in 1 .. Len(c.events) : heap[c.events[j]].pc = perf_file[k].pc

\* regions i and j are method regions loaded at the same base address, i
\* live in [t0,t1) and j in [t1,t2)
Reused(i, j) ==
    /\ i < j
    /\ ~code_info[i].generated /\ ~code_info[j].generated
    /\ code_info[i].code_addr = code_info[j].code_addr
    /\ code_info[i].unload_time # None /\ code_info[j].unload_time # None
    /\ code_info[i].timestamp < code_info[i].unload_time
    /\ code_info[i].unload_time = code_info[j].timestamp
    /\ code_info[j].timestamp < code_info[j].unload_time

InWindow(t, c) == c.timestamp <= t /\ t < c.unload_time

\* C1 as claimed: after attribute_events, of two method regions loaded at the
\* same base address with the windows [t0,t1) and [t1,t2), each has weight
\* only from perf records at that address whose timestamp is in its window.
C1_original ==
    phase = "attributed" =>
       \A i, j \in Regions :
          Reused(i, j) =>
             \A k \in 1 .. Len(perf_file) :
                perf_file[k].pc = code_info[i].code_addr =>
                   /\ GaveWeight(k, code_info[i]) => InWindow(perf_file[k].timestamp, code_info[i])
                   /\ GaveWeight(k, code_info[j]) => InWindow(perf_file[k].timestamp, code_info[j])

\* C8: merge_perf_events leaves exactly one merged event for each address of
\* the decoded records and none for another address; its period is the sum of
\* the periods of all records at the address and its samples field is 1.
C8_merge ==
    Merged =>
       /\ \A k \in 1 .. Len(perf_file) :
             Cardinality({j \in 1 .. Len(events) : heap[events[j]].pc = perf_file[k].pc}) = 1
       /\ \A j \in 1 .. Len(events) :
             LET e == heap[events[j]] IN
             /\ \E k \in 1 .. Len(perf_file) : perf_file[k].pc = e.pc
             /\ e.period = PeriodAt(perf_file, e.pc, Len(perf_file))
             /\ e.samples = 1

C8_witness ==
    /\ phase = "perf"
    /\ Len(perf_file) = 2 /\ perf_file[1].period = 2 /\ perf_file[2].period = 1
    /\ Len(events) = 1
    /\ heap[events[1]].period = 3 /\ heap[events[1]].samples = 1

\* C9: after merge_perf_events and after attribute_events, raw_events holds
\* one event for each line of the perf output, in the order of the lines,
\* each with the period, timestamp, symbol and module of its line.
C9_raw_unmodified ==
    Merged =>
       /\ Len(raw_events) = Len(perf_file)
       /\ \A k \in 1 .. Len(perf_file) : heap[raw_events[k]] = PerfEvent(perf_file[k])
       /\ \A k, l \in 1 .. Len(raw_events) : k # l => raw_events[k] # raw_events[l]

C9_witness ==
    /\ phase = "attributed"
    /\ Len(perf_file) = 2
    /\ \E j \in 1 .. Len(events) :
          /\ heap[events[j]].dso = "[JIT]"
          /\ heap[events[j]].symbol \in MethodNames
          /\ heap[events[j]].period = perf_file[1].period + perf_file[2].period
    /\ heap[raw_events[1]] = PerfEvent(perf_file[1])
    /\ heap[raw_events[2]] = PerfEvent(perf_file[2])

-----------------------------------------------------------------------------
(* DisassemblyDecoder.filter_by_hot_region *)

\* "if begin and skip > context_size": a region is open and the gap is over
region_closes_early(begin, skip, size) == Truthy(begin) /\ skip >= size

region_closes(begin, skip, size) == Truthy(begin) /\ skip > size

\* the for loop from instruction k (index k - 1) on, then the code after it;
\* w holds begin, skip, regions and the hot set
RECURSIVE hot_walk(_, _, _, _)
hot_walk(instrs, size, k, w) ==
    IF k > Len(instrs)
    THEN [regions |-> IF Truthy(w.begin)
                      THEN Append(w.regions, <<w.begin, Len(instrs)>>)
                      ELSE w.regions,
          hotpc |-> w.hotpc]
    ELSE LET index == k - 1
             hot == instrs[k] \in w.hotpc
             skip == IF hot THEN 0 ELSE w.skip + 1
             begin == IF hot /\ ~Truthy(w.begin) THEN Max(index - size, 0) ELSE w.begin
             left == IF hot THEN w.hotpc \ {instrs[k]} ELSE w.hotpc
         IN IF region_closes(begin, skip, size)
            THEN hot_walk(instrs, size, k + 1,
                          [begin |-> None, skip |-> 0,
                           regions |-> Append(w.regions, <<begin, index>>), hotpc |-> left])
            ELSE hot_walk(instrs, size, k + 1,
                          [begin |-> begin, skip |-> skip,
                           regions |-> w.regions, hotpc |-> left])

\* filter_by_hot_region(instructions, hotpc, context_size): the regions
\* returned and what is left of the hot set
filter_by_hot_region(instrs, hot, size) ==
    hot_walk(instrs, size, 1, [begin |-> None, skip |-> 0, regions |-> <<>>, hotpc |-> hot])

FilterByHotRegion ==
    /\ ~hot_done
    /\ LET r == filter_by_hot_region(instructions, hotpc, context_size)
       IN /\ regions' = r.regions
          /\ hotpc' = r.hotpc
    /\ hot_done' = TRUE
    /\ UNCHANGED <<asm_vars, perf_vars, counters, phase, instructions, sampled, context_size,
                   dis_vars, top>>

-----------------------------------------------------------------------------
(* Hot regions of any instruction list *)

\* length of the instruction list
MaxInstructions == 24

ContextSizes == {0, 1, 2}

\* the instruction list of n instructions of 4 bytes from address 4096 on
InstructionList(n) == [i \in 1 .. n |-> 4096 + 4 * (i - 1)]

\* an address inside the first instruction, at which no instruction starts
StrayAddresses == {4097}

\* the sets of at most three addresses
SmallSets(S) == {{}} \cup {{a, b, c} : a, b, c \in S}

InitFilter ==
    /\ InitAssembly
    /\ InitPerf
    /\ phase = "disassemble"
    /\ \E n \in 0 .. MaxInstructions : instructions = InstructionList(n)
    /\ sampled \in SmallSets({instructions[i] : i \in 1 .. Len(instructions)} \cup StrayAddresses)
    /\ hotpc = sampled
    /\ context_size \in ContextSizes
    /\ regions = <<>>
    /\ hot_done = FALSE
    /\ InitDis
    /\ InitTop

NextFilter == FilterByHotRegion

SpecFilter == InitFilter /\ [][NextFilter]_vars

\* the addresses of the instructions at the given indices (from 0)
AddressesAt(indices) == {instructions[i + 1] : i \in indices}

\* the case of hot instructions at the indices 5, 6 and 20 among 22 or more
Hot_5_6_20 ==
    /\ context_size = 2
    /\ Len(instructions) >= 22
    /\ sampled = AddressesAt({5, 6, 20})

\* C10 as claimed: with context_size 2 and exactly the instructions at the
\* indices 5, 6 and 20 of 22 or more hot, filter_by_hot_region returns the
\* regions (3, 8) and (18, 22) and leaves the hot set empty.
C10_original ==
    (hot_done /\ Hot_5_6_20) => (regions = << <<3, 8>>, <<18, 22>> >> /\ hotpc = {})

\* C10 amended: in that case filter_by_hot_region returns exactly two regions,
\* (3, 9) and (18, min(n, 23)) for a list of n instructions: each region runs
\* context_size instructions past its last hot instruction, so the second is
\* (18, 22) only for a list of exactly 22 instructions; the hot set is left
\* empty.
C10_amended ==
    (hot_done /\ Hot_5_6_20) =>
       /\ regions = << <<3, 9>>, <<18, Min(Len(instructions), 23)>> >>
       /\ hotpc = {}

C10_witness ==
    /\ hot_done /\ Hot_5_6_20
    /\ Len(instructions) = 24
    /\ regions = << <<3, 9>>, <<18, 23>> >>
    /\ hotpc = {}

-----------------------------------------------------------------------------
(* DisassemblyDecoder.disassemble_with_skip *)

\* Instruction(address, mnemonic, operand, bytes, size); the operand kept is
\* the byte value of a '.byte' pseudo-instruction, None for a decoded one
Instruction(address, mnemonic, operand, size) ==
    [address |-> address, mnemonic |-> mnemonic, operand |-> operand, size |-> size]

\* the list built from self.decoder.disasm(code, address) when the external
\* decoder returns a run of instructions of the given sizes: they follow one
\* another from address on
RECURSIVE disasm(_, _)
disasm(run, address) ==
    IF run = <<>> THEN <<>>
    ELSE <<Instruction(address, "insn", None, Head(run))>>
            \o disasm(Tail(run), address + Head(run))

\* last = instructions[-1]; decoded_bytes = last.address + last.size - code_addr
decoded_up_to(instrs, base) ==
    instrs[Len(instrs)].address + instrs[Len(instrs)].size - base

\* a loop that steps over an undecodable byte without recording it
skip_byte(instrs, c, base, d) == instrs

\* instructions.append(Instruction(code_addr + decoded_bytes, '.byte', ...,
\* code[decoded_bytes:decoded_bytes + 1], 1))
byte_instruction(instrs, c, base, d) ==
    Append(instrs, Instruction(base + d, ".byte", c[d + 1], 1))

\* the first call of the decoder, on the whole buffer
DisasmFirst(run) ==
    /\ dis_pc = "start"
    /\ decoded' = disasm(run, code_base)
    /\ decoded_bytes' = IF run # <<>> THEN decoded_up_to(disasm(run, code_base), code_base)
                        ELSE 0
    /\ dis_pc' = "loop"
    /\ UNCHANGED <<asm_vars, perf_vars, counters, phase, hot_vars, code, code_base,
                   new_instructions, annotators, annotations, top>>

\* "while decoded_bytes != total_size": the condition holds and the decoder is
\* run on code[decoded_bytes:] at code_addr + decoded_bytes
DisasmCall(run) ==
    /\ dis_pc = "loop"
    /\ decoded_bytes # Len(code)
    /\ new_instructions' = disasm(run, code_base + decoded_bytes)
    /\ dis_pc' = "called"
    /\ UNCHANGED <<asm_vars, perf_vars, counters, phase, hot_vars, code, code_base,
                   decoded_bytes, decoded, annotators, annotations, top>>

\* the rest of the iteration: "if new_instructions: ... else: ..."
DisasmExtend ==
    /\ dis_pc = "called"
    /\ IF new_instructions # <<>>
       THEN /\ decoded' = decoded \o new_instructions
            /\ decoded_bytes' = decoded_up_to(decoded \o new_instructions, code_base)
       ELSE /\ decoded' = byte_instruction(decoded, code, code_base, decoded_bytes)
            /\ decoded_bytes' = decoded_bytes + 1
    /\ dis_pc' = "loop"
    /\ UNCHANGED <<asm_vars, perf_vars, counters, phase, hot_vars, code, code_base,
                   new_instructions, annotators, annotations, top>>

\* the loop condition is false: return instructions
DisasmReturn ==
    /\ dis_pc = "loop"
    /\ decoded_bytes = Len(code)
    /\ dis_pc' = "returned"
    /\ UNCHANGED <<asm_vars, perf_vars, counters, phase, hot_vars, code, code_base,
                   decoded_bytes, decoded, new_instructions, annotators, annotations, top>>

-----------------------------------------------------------------------------
(* disassemble_with_skip on any buffer, with any decoder *)

\* length of the byte buffer
MaxCode == 3

ByteValues == {0, 255}
CodeBases == {4096}

\* the sizes of the instructions the decoder returns
InsnSizes == {1, 2}

\* what the decoder may return on a buffer of n bytes: any run of instructions,
\* the empty one included, that lies inside the buffer
RECURSIVE Runs(_)
Runs(n) ==
    {<<>>} \cup UNION {{<<s>> \o r : r \in Runs(n - s)} : s \in {z \in InsnSizes : z <= n}}

InitDisasm ==
    /\ InitAssembly
    /\ InitPerf
    /\ InitHot
    /\ InitTop
    /\ phase = "disassemble"
    /\ code \in SeqsUpTo(ByteValues, MaxCode)
    /\ code_base \in CodeBases
    /\ decoded_bytes = 0
    /\ decoded = <<>>
    /\ new_instructions = <<>>
    /\ dis_pc = "start"
    /\ annotators = <<>>
    /\ annotations = [status |-> "idle", pre |-> <<>>, post |-> <<>>, messages |-> <<>>]

NextDisasm ==
    \/ \E run \in Runs(Len(code)) : DisasmFirst(run)
    \/ \E run \in Runs(Len(code) - decoded_bytes) : DisasmCall(run)
    \/ DisasmExtend
    \/ DisasmReturn

\* the call keeps running until it returns
SpecDisasm == InitDisasm /\ [][NextDisasm]_vars /\ WF_vars(NextDisasm)

\* the sizes of the first k instructions, summed
RECURSIVE SizeSum(_, _)
SizeSum(instrs, k) == IF k = 0 THEN 0 ELSE SizeSum(instrs, k - 1) + instrs[k].size

\* the instructions tile [base, base + total): each starts where the one
\* before it ends, the first at base, and the sizes sum to total
Contiguous(instrs, base, total) ==
    /\ \A k \in 1 .. Len(instrs) :
          /\ instrs[k].size >= 1
          /\ instrs[k].address = base + SizeSum(instrs, k - 1)
    /\ SizeSum(instrs, Len(instrs)) = total

\* the rest of an iteration appends what the decoder returned, or, when it
\* returned nothing, exactly one '.byte' of size 1 for the first byte not yet
\* decoded; decoded_bytes grows by the sizes appended and stays inside the
\* buffer
LoopStep ==
    LET added == IF new_instructions # <<>> THEN new_instructions
                 ELSE <<Instruction(code_base + decoded_bytes, ".byte",
                                    code[decoded_bytes + 1], 1)>>
    IN /\ decoded' = decoded \o added
       /\ decoded_bytes' = decoded_bytes + SizeSum(added, Len(added))
       /\ decoded_bytes' > decoded_bytes
       /\ decoded_bytes' <= Len(code)

\* C11: disassemble_with_skip returns for every buffer and every behaviour of
\* the decoder; the instructions returned are contiguous from the base
\* address and their sizes sum to the buffer length; every iteration of the
\* loop makes progress, and a byte the decoder returns nothing for becomes
\* one '.byte' pseudo-instruction of size 1 carrying that byte.
C11_terminates_and_tiles ==
    /\ <>(dis_pc = "returned")
    /\ [](dis_pc = "returned" => Contiguous(decoded, code_base, Len(code)))
    /\ [][dis_pc = "called" => LoopStep]_vars

C11_witness ==
    /\ dis_pc = "returned"
    /\ code = <<0, 255, 0>>
    /\ decoded = <<Instruction(4096, "insn", None, 1), Instruction(4097, ".byte", 255, 1),
                   Instruction(4098, "insn", None, 1)>>

-----------------------------------------------------------------------------
(* DisassemblyDecoder.get_annotations *)

\* the loop over self.annotators from annotator k on; results[k] is what
\* annotator k returns for the instruction (a tuple annotator is called a
\* second time and returns the same pair); w holds preannotations,
\* postannotations and the messages printed
RECURSIVE annotate_loop(_, _, _)
annotate_loop(results, k, w) ==
    IF k > Len(results)
    THEN [status |-> "returned",
          pre |-> IF w.preannotations # <<>> THEN <<w.preannotations[1]>> ELSE <<>>,
          post |-> w.postannotations, messages |-> w.messages]
    ELSE LET a == results[k]
         IN IF a.kind = "None" THEN annotate_loop(results, k + 1, w)
            ELSE IF a.kind = "list"
            THEN annotate_loop(results, k + 1,
                               [w EXCEPT !.postannotations = @ \o a.post])
            ELSE IF a.kind = "tuple"
            THEN annotate_loop(results, k + 1,
                               [w EXCEPT !.preannotations =
                                            IF a.pre # "" THEN Append(@, a.pre) ELSE @,
                                         !.postannotations =
                                            IF a.post # <<>> THEN @ \o a.post ELSE @])
            ELSE IF a.kind = "str"
            THEN annotate_loop(results, k + 1,
                               [w EXCEPT !.postannotations = @ \o a.post])
            ELSE [status |-> "abort", pre |-> <<>>, post |-> <<>>,
                  messages |-> Append(w.messages, "Unexpected annotation")]

\* get_annotations(instruction): the pair returned (pre is empty for None) or
\* the abort, and the messages printed on the way
get_annotations(results) ==
    annotate_loop(results, 1, [preannotations |-> <<>>, postannotations |-> <<>>,
                               messages |-> <<>>])

GetAnnotations ==
    /\ phase = "annotate"
    /\ annotations.status = "idle"
    /\ annotations' = get_annotations(annotators)
    /\ UNCHANGED <<asm_vars, perf_vars, counters, phase, hot_vars, code, code_base,
                   decoded_bytes, decoded, new_instructions, dis_pc, annotators, top>>

-----------------------------------------------------------------------------
(* get_annotations with any annotators *)

\* number of annotators registered
MaxAnnotators == 2

\* what an annotator may return: None, a list of trailing annotations, a
\* string, a pair (trailing annotations, leading annotation) whose leading
\* part may be empty, or a value of another type
AnnotatorResults ==
    {[kind |-> "None", post |-> <<>>, pre |-> ""],
     [kind |-> "list", post |-> <<"a">>, pre |-> ""],
     [kind |-> "str", post |-> <<"s">>, pre |-> ""],
     [kind |-> "tuple", post |-> <<>>, pre |-> "L1:"],
     [kind |-> "tuple", post |-> <<"t">>, pre |-> "L2:"],
     [kind |-> "tuple", post |-> <<"t">>, pre |-> ""],
     [kind |-> "other", post |-> <<>>, pre |-> ""]}

AnnotatorLists == SeqsUpTo(AnnotatorResults, MaxAnnotators)

InitAnnotate ==
    /\ InitAssembly
    /\ InitPerf
    /\ InitHot
    /\ InitTop
    /\ phase = "annotate"
    /\ code = <<>>
    /\ code_base = 0
    /\ decoded_bytes = 0
    /\ decoded = <<>>
    /\ new_instructions = <<>>
    /\ dis_pc = "idle"
    /\ annotators \in AnnotatorLists
    /\ annotations = [status |-> "idle", pre |-> <<>>, post |-> <<>>, messages |-> <<>>]

NextAnnotate == GetAnnotations

SpecAnnotate == InitAnnotate /\ [][NextAnnotate]_vars

\* the leading annotations proposed for the instruction, in annotator order
Leading ==
    LET Proposes(a) == a.kind = "tuple" /\ a.pre # ""
    IN SelectSeq(annotators, Proposes)

\* C12 as claimed: when more than one annotator returns a leading annotation,
\* get_annotations returns the first of them and reports each later one, which
\* it drops, as a defect.
C12_original ==
    (annotations.status = "returned" /\ Len(Leading) > 1) =>
       /\ annotations.pre = <<Leading[1].pre>>
       /\ Len(annotations.messages) >= Len(Leading) - 1

-----------------------------------------------------------------------------
(* Properties of find *)

\* the regions whose [base, end) contains pc, and the addresses inside some
\* region
Candidates(pc) ==
    {i \in Regions : code_info[i].code_addr <= pc
                        /\ pc < code_info[i].code_addr + code_info[i].code_size}

CodeAddresses ==
    UNION {code_info[i].code_addr .. (code_info[i].code_addr + code_info[i].code_size - 1) :
              i \in Regions}

\* region i is a stub or was loaded at or before t and not unloaded at t
LiveAt(i, t) ==
    \/ code_info[i].generated
    \/ /\ code_info[i].timestamp <= t
       /\ code_info[i].unload_time = None \/ code_info[i].unload_time > t

UnloadedAfter(i, t) == code_info[i].unload_time = None \/ code_info[i].unload_time > t

\* the earliest loaded region of a set of regions
Earliest(S) == CHOOSE i \in S : \A j \in S : i <= j

\* find when the map is built from the regions decoded so far
Lookup(pc, t) == find(code_info, build_search_map(code_info), pc, t)

\* C13: when two or more regions contain pc, find(pc, t) returns the first
\* region in load order that is a stub or is live at t; if there is none, the
\* first in load order whose unload time is unset or greater than t; if there
\* is none, no region.
C13_find_among_many ==
    phase = "assembly" =>
       LET m == build_search_map(code_info) IN
       \A pc \in CodeAddresses, t \in QueryTimes :
          LET live == {i \in Candidates(pc) : LiveAt(i, t)}
              later == {i \in Candidates(pc) : UnloadedAfter(i, t)}
              expected == IF live # {} THEN Earliest(live)
                          ELSE IF later # {} THEN Earliest(later) ELSE None
          IN Cardinality(Candidates(pc)) >= 2 =>
                find(code_info, m, pc, t) = [region |-> expected, error |-> FALSE]

\* two method regions at one address, live in [1,2) and in [2,3): each is the
\* exact match in its window, the first is returned for a sample before both
\* and no region for a sample after both
C13_witness ==
    /\ phase = "assembly" /\ status = "reading"
    /\ \E pc \in CodeAddresses :
          /\ Candidates(pc) = {1, 2}
          /\ ~code_info[1].generated /\ ~code_info[2].generated
          /\ Lookup(pc, 1).region = 1
          /\ Lookup(pc, 2).region = 2
          /\ Lookup(pc, 0).region = 1
          /\ Lookup(pc, 3).region = None

\* C14: when exactly one region contains pc, find(pc, t) returns that region
\* for every timestamp t, before the region's load timestamp and at or after
\* its unload time too.
C14_single_candidate ==
    phase = "assembly" =>
       LET m == build_search_map(code_info) IN
       \A pc \in CodeAddresses, t \in QueryTimes :
          \A i \in Candidates(pc) :
             Candidates(pc) = {i} => find(code_info, m, pc, t) = [region |-> i, error |-> FALSE]

\* a method region loaded at 2 and unloaded at 2, alone at its address, is
\* returned at 0, before its load, and at 2 and 3, after its unload
C14_witness ==
    /\ phase = "assembly" /\ status = "reading"
    /\ \E i \in Regions :
          LET c == code_info[i] IN
          /\ ~c.generated /\ c.timestamp = 2 /\ c.unload_time = 2
          /\ Candidates(c.code_addr) = {i}
          /\ \A t \in QueryTimes : ~contains(c, c.code_addr, t)
          /\ \A t \in QueryTimes : Lookup(c.code_addr, t).region = i

\* addresses around the regions and the bucket boundary
NearAddresses == CodeAddresses \cup {p + 1 : p \in CodeAddresses} \cup {bucket_size}

\* C15: for the regions decoded so far and any pc, every region whose
\* [base, end) contains pc is listed in the bucket round_down(pc) of the map
\* built from them, the regions of the bucket that contain pc are those the
\* linear scan finds, and find does not raise the mismatch error.
C15_bucket_covers ==
    phase = "assembly" =>
       LET m == build_search_map(code_info) IN
       \A pc \in NearAddresses :
          /\ Candidates(pc) # {} => round_down(pc) \in DOMAIN m
          /\ \A i \in Candidates(pc) :
                \E k \in 1 .. Len(m[round_down(pc)]) : m[round_down(pc)][k] = i
          /\ LET Hit(i) == i \in Candidates(pc)
                 bucket == IF round_down(pc) \in DOMAIN m THEN m[round_down(pc)] ELSE <<>>
             IN SelectSeq(bucket, Hit) = search(code_info, pc)
          /\ \A t \in QueryTimes : ~find(code_info, m, pc, t).error

\* a region across the bucket boundary is listed in both buckets, next to a
\* region that lies in the first bucket only
C15_witness ==
    /\ phase = "assembly"
    /\ Len(code_info) = 2
    /\ code_info[1].code_addr = 0
    /\ code_info[2].code_addr = 8191 /\ code_info[2].code_size = 2
    /\ build_search_map(code_info) = (0 :> <<1, 2>> @@ bucket_size :> <<2>>)
    /\ Lookup(8191, 1).region = 2 /\ Lookup(8192, 1).region = 2

-----------------------------------------------------------------------------
(* GeneratedAssembly.top_methods *)

\* the predicates the commands pass as include: profhot passes
\* "lambda x: x.total_period > 0", profrecord passes
\* "lambda x: not x.generated and x.total_period > 0"; with no predicate every
\* region is kept
include_region(include, c) ==
    CASE include = "sampled" -> c.total_period > 0
      [] include = "jit_sampled" -> ~c.generated /\ c.total_period > 0
      [] OTHER -> TRUE

\* an insertion that puts a region before the regions of equal total_period
insert_before_equal(infos, sorted, i) ==
    LET ahead == {k \in 1 .. Len(sorted) :
                     infos[sorted[k]].total_period > infos[i].total_period}
        n == Cardinality(ahead)
    IN SubSeq(sorted, 1, n) \o <<i>> \o SubSeq(sorted, n + 1, Len(sorted))

\* where list.sort(key=total_period, reverse=True), a stable sort, leaves a
\* region with respect to the regions before it in the list: behind all those
\* of greater or equal total_period
insert_sorted(infos, sorted, i) ==
    LET ahead == {k \in 1 .. Len(sorted) :
                     infos[sorted[k]].total_period >= infos[i].total_period}
        n == Cardinality(ahead)
    IN SubSeq(sorted, 1, n) \o <<i>> \o SubSeq(sorted, n + 1, Len(sorted))

\* entries.sort(key=lambda x: x.total_period, reverse=True)
RECURSIVE sort_by_period(_, _, _, _)
sort_by_period(infos, entries, k, sorted) ==
    IF k > Len(entries) THEN sorted
    ELSE sort_by_period(infos, entries, k + 1, insert_sorted(infos, sorted, entries[k]))

\* top_methods(include) with a predicate: the list comprehension builds a new
\* list, which is sorted and returned, and self.code_info is left as it is.
\* (Without a predicate the list sorted would be self.code_info itself; every
\* caller passes one.)
top_methods(infos, include) ==
    LET order == [i \in 1 .. Len(infos) |-> i]
        Kept(i) == include_region(include, infos[i])
    IN sort_by_period(infos, SelectSeq(order, Kept), 1, <<>>)

TopMethods(include) ==
    /\ phase = "attributed"
    /\ top' = [status |-> "returned", include |-> include,
               entries |-> top_methods(code_info, include)]
    /\ phase' = "ranked"
    /\ UNCHANGED <<asm_vars, perf_vars, counters, hot_vars, dis_vars>>

-----------------------------------------------------------------------------
(* A profile: stubs and methods at two addresses, samples inside, between   *)
(* and outside them, attribution and ranking                                *)

ProfileBases == {4096, 4098}
ProfileTimes == {2}

\* the lines of the perf output: samples at the two base addresses and at the
\* address between them; the period field of a line is any decimal number,
\* and a sample of period 0 is drawn at the address between
ProfileLines ==
    [timestamp : ProfileTimes, pc : {4096, 4097, 4098}, period : Periods,
     symbol : Symbols, dso : Modules]
    \cup [timestamp : ProfileTimes, pc : {4097}, period : {0},
          symbol : Symbols, dso : Modules]

ProfileFiles == SeqsUpTo(ProfileLines, MaxEvents)

Includes == {"sampled", "jit_sampled"}

NextProfile ==
    \/ MoreTags /\ ReadDynamicCode(1, "StubX", 4096, 2)
    \/ \E a \in ProfileBases : MoreTags /\ ReadCompiledMethodLoad(1, "foo.Bar.baz", a, 1)
    \/ MoreTags /\ ReadCompiledMethodUnload(2, 4096)
    \/ ReadReturn(None)
    \/ \E lines \in ProfileFiles : PerfOutputInit(lines)
    \/ AttributeEvents
    \/ \E include \in Includes : TopMethods(include)

SpecProfile == Init /\ [][NextProfile]_vars

-----------------------------------------------------------------------------
(* Properties of the attribution and of the ranking *)

\* the merged event e lies inside [low_address, high_address)
InRange(e) == low_address <= heap[e].pc /\ heap[e].pc < high_address

\* for each merged event, whether it is in range and the region find returns
\* for it (None for no region), on the map built from the regions
Lookups ==
    LET m == build_search_map(code_info)
    IN [e \in {events[k] : k \in 1 .. Len(events)} |->
          [inrange |-> InRange(e),
           region |-> find(code_info, m, heap[e].pc, heap[e].timestamp).region]]

\* the merged events in range for which find returns region i, in the order
\* of the merged list
EventsOf(found, i) ==
    LET Mine(e) == found[e].inrange /\ found[e].region = i
    IN SelectSeq(events, Mine)

RECURSIVE WeightOf(_, _)
WeightOf(evs, k) == IF k = 0 THEN 0 ELSE WeightOf(evs, k - 1) + heap[evs[k]].period

\* C16: one run of attribute_events changes each region R by exactly the
\* merged events in range for which find returns R: they are appended to its
\* event list, total_period grows by their weights and total_samples by
\* their number, each gets the symbol R.name and the module '[Generated]' for
\* a stub, '[JIT]' otherwise; a region find returns for no event does not
\* change; an event in range for which find returns no region does not
\* change and is counted in missing, and nothing else is.
C16_attribution_effect ==
    [][(phase = "perf" /\ phase' = "attributed") =>
          LET found == Lookups IN
          /\ Len(code_info') = Len(code_info)
          /\ \A i \in Regions :
                LET mine == EventsOf(found, i) IN
                code_info'[i] =
                   [code_info[i] EXCEPT
                      !.events = @ \o mine,
                      !.total_period = @ + WeightOf(mine, Len(mine)),
                      !.total_samples = @ + Len(mine)]
          /\ \A e \in DOMAIN found :
                found[e].inrange =>
                   IF found[e].region # None
                   THEN heap'[e] = [heap[e] EXCEPT
                                      !.symbol = code_info[found[e].region].name,
                                      !.dso = IF code_info[found[e].region].generated
                                              THEN "[Generated]" ELSE "[JIT]"]
                   ELSE heap'[e] = heap[e]
          /\ counters'.missing =
                Cardinality({e \in DOMAIN found :
                                found[e].inrange /\ found[e].region = None})
          /\ counters'.attributed =
                Cardinality({e \in DOMAIN found :
                                found[e].inrange /\ found[e].region # None})]_vars

\* two methods with a gap between them: the merged event of the samples at
\* the second method went to it alone, with its weight 2 and one sample, and
\* the event at the address between the methods is missing and unchanged
C16_witness ==
    /\ phase = "attributed"
    /\ Len(code_info) = 2
    /\ ~code_info[1].generated /\ code_info[1].code_addr = 4096
    /\ ~code_info[2].generated /\ code_info[2].code_addr = 4098
    /\ counters = [attributed |-> 1, unknown |-> 0, missing |-> 1]
    /\ Len(events) = 2
    /\ heap[events[1]].pc = 4097 /\ heap[events[1]].dso \in Modules
    /\ heap[events[2]].pc = 4098 /\ heap[events[2]].dso = "[JIT]"
    /\ code_info[1].events = <<>>
    /\ code_info[2].events = <<events[2]>>
    /\ code_info[2].total_period = 2 /\ code_info[2].total_samples = 1

\* C17: top_methods(include) returns each region that satisfies the predicate
\* once and no other region, in an order of non-increasing total_period in
\* which regions of equal total_period stay in load order.
C17_top_methods ==
    top.status = "returned" =>
       LET n == Len(top.entries)
           period(k) == code_info[top.entries[k]].total_period
       IN /\ {top.entries[k] : k \in 1 .. n} =
                {i \in Regions : include_region(top.include, code_info[i])}
          /\ \A k, l \in 1 .. n : k # l => top.entries[k] # top.entries[l]
          /\ \A k, l \in 1 .. n :
                k < l => \/ period(k) > period(l)
                         \/ period(k) = period(l) /\ top.entries[k] < top.entries[l]

\* three regions: the second has no sample and is left out, the third has
\* the greater total and comes first
C17_witness ==
    /\ top.status = "returned" /\ top.include = "sampled"
    /\ Len(code_info) = 3
    /\ code_info[1].total_period = 1
    /\ code_info[2].total_period = 0
    /\ code_info[3].total_period = 2
    /\ top.entries = <<3, 1>>

-----------------------------------------------------------------------------
(* Properties of the hot regions *)

\* the indices (from 0) of the instructions whose address was in the hot set
HotIndices == {i \in 0 .. (Len(instructions) - 1) : instructions[i + 1] \in sampled}

\* C18 as claimed: every instruction whose address was in the hot set lies
\* inside a returned region, begin <= index < end; this includes the hot
\* instructions among the first context_size instructions, for which the
\* region opens at index 0.
C18_original ==
    hot_done =>
       \A i \in HotIndices :
          \E k \in 1 .. Len(regions) : regions[k][1] <= i /\ i < regions[k][2]

\* C19 as claimed: every returned region has begin < end and begins at or
\* after the end of the region before it, so that no instruction is in two
\* regions.
C19_original ==
    hot_done =>
       \A k \in 1 .. Len(regions) :
          /\ regions[k][1] < regions[k][2]
          /\ k > 1 => regions[k][1] >= regions[k - 1][2]

-----------------------------------------------------------------------------
(* Properties of the address range *)

\* C20 as claimed: once a region is decoded, low_address is the least base
\* address and high_address the greatest end address of the regions decoded
\* so far, so that every address of a region passes the range check of
\* attribute_events; a region at base address 0 included.
C20_original ==
    (phase = "assembly" /\ code_info # <<>>) =>
       /\ \A i \in Regions :
             low_address <= code_info[i].code_addr /\ code_end(code_info[i]) <= high_address
       /\ \E i \in Regions : low_address = code_info[i].code_addr
       /\ \E i \in Regions : high_address = code_end(code_info[i])
       /\ \A pc \in CodeAddresses : low_address <= pc /\ pc < high_address

-----------------------------------------------------------------------------
(* Properties of the unload record *)

\* the regions loaded at base address a
LoadedAt(a) == {i \in Regions : code_info[i].code_addr = a}

\* the most recently loaded of a set of regions
Latest(S) == CHOOSE i \in S : \A j \in S : j <= i

\* C21: an unload record at address A that is decoded without error sets the
\* unload time of the most recently loaded region with base address A to the
\* record's timestamp and changes nothing else: every other region, an
\* earlier region loaded at A included, is left as it was, and the address
\* range and the address index are unchanged; and no record removes or
\* reorders a region.
C21_unload_frame ==
    [][/\ Len(code_info') >= Len(code_info)
       /\ \A i \in Regions :
             /\ code_info'[i].name = code_info[i].name
             /\ code_info'[i].code_addr = code_info[i].code_addr
             /\ code_info'[i].timestamp = code_info[i].timestamp
       /\ (rec'.tag = CompiledMethodUnloadTag /\ nread' = nread + 1 /\ status' = "reading") =>
             /\ LoadedAt(rec'.code_addr) # {}
             /\ code_info' =
                   [code_info EXCEPT ![Latest(LoadedAt(rec'.code_addr))].unload_time =
                                        rec'.timestamp]
             /\ UNCHANGED <<low_address, high_address, code_by_address, map>>]_vars

\* two regions loaded at one address: the unload record has set the unload
\* time of the second and the first is still not unloaded
C21_witness ==
    /\ status = "reading" /\ rec.tag = CompiledMethodUnloadTag
    /\ Len(code_info) = 2
    /\ code_info[1].code_addr = rec.code_addr /\ code_info[2].code_addr = rec.code_addr
    /\ code_info[1].unload_time = None
    /\ code_info[2].unload_time = rec.timestamp

-----------------------------------------------------------------------------
(* Properties of the totals after attribution *)

Attributed == phase \in {"attributed", "ranked"}

\* the places (region, position) of the event lists that hold the event e
PlacesOf(e) ==
    {p \in UNION {{<<i, j>> : j \in 1 .. Len(code_info[i].events)} : i \in Regions} :
        code_info[p[1]].events[p[2]] = e}

RECURSIVE RegionsPeriod(_)
RegionsPeriod(n) == IF n = 0 THEN 0 ELSE RegionsPeriod(n - 1) + code_info[n].total_period

\* the merged events that are in no region's list: those that were missing
\* or outside [low_address, high_address)
Unattributed ==
    LET Lost(e) == PlacesOf(e) = {}
    IN SelectSeq(events, Lost)

\* no merged event was missing and none was outside the range
NoneLost ==
    /\ counters.missing = 0
    /\ \A k \in 1 .. Len(events) : InRange(events[k])

\* each merged event is in at most one event list, once, and the totals of
\* every region are those of its list
ListsAndTotals ==
    /\ \A k \in 1 .. Len(events) : Cardinality(PlacesOf(events[k])) <= 1
    /\ \A i \in Regions :
          /\ code_info[i].total_period =
                WeightOf(code_info[i].events, Len(code_info[i].events))
          /\ code_info[i].total_samples = Len(code_info[i].events)

\* C22 as claimed: after attribute_events each merged event is in at most one
\* event list, every region's total_period is the sum of the weights of its
\* list and its total_samples their number, and the sum of the regions'
\* total_period is at most the stream's total_period, equal exactly when no
\* merged event was missing or outside the range.
C22_original ==
    Attributed =>
       /\ ListsAndTotals
       /\ RegionsPeriod(Len(code_info)) <= total_period
       /\ (RegionsPeriod(Len(code_info)) = total_period) <=> NoneLost

\* C22 amended: after attribute_events each merged event is in at most one
\* event list, every region's total_period is the sum of the weights of its
\* list and its total_samples their number; the stream's total_period
\* exceeds the sum of the regions' total_period by exactly the weight of the
\* merged events that were missing or outside the range.  So the sum is at
\* most the stream's total, it is equal when no event was missing or outside,
\* and it is equal with such an event only if every such event has weight 0.
C22_amended ==
    Attributed =>
       /\ ListsAndTotals
       /\ total_period - RegionsPeriod(Len(code_info)) =
             WeightOf(Unattributed, Len(Unattributed))
       /\ RegionsPeriod(Len(code_info)) <= total_period
       /\ NoneLost => RegionsPeriod(Len(code_info)) = total_period
       /\ (RegionsPeriod(Len(code_info)) = total_period /\ ~NoneLost) =>
             \A k \in 1 .. Len(Unattributed) : heap[Unattributed[k]].period = 0
       /\ Len(Unattributed) = 0 <=> NoneLost

\* two methods with a gap: the sample of weight 0 between them is missing,
\* the sample of weight 2 is attributed, and the totals are equal
C22_witness ==
    /\ phase = "attributed"
    /\ Len(code_info) = 2
    /\ counters = [attributed |-> 1, unknown |-> 0, missing |-> 1]
    /\ \E k \in 1 .. Len(events) : heap[events[k]].pc = 4097 /\ heap[events[k]].period = 0
    /\ code_info[2].total_period = 2 /\ code_info[2].total_samples = 1
    /\ total_period = 2
    /\ RegionsPeriod(Len(code_info)) = total_period

=============================================================================
